---- MODULE Spec2Model ----
(***************************************************************************)
(* TinyVM (tinyvm.py): a byte-addressable memory image, eight registers,   *)
(* a fetch-decode-execute engine and a bounded execution driver.           *)
(*                                                                         *)
(* Python integers are unbounded.  A Python int x is represented by the    *)
(* record [hi |-> x div 2^16, lo |-> x mod 2^16] (floor division), so a    *)
(* value is a 32-bit unsigned number exactly when hi is in 0..65535; sums  *)
(* and differences that leave that range stay representable until the      *)
(* code masks them.  Small integers (ip, counters) are plain integers.     *)
(*                                                                         *)
(* A line of output is a sequence of strings (its pieces in order); out is *)
(* the sequence of lines written to standard output.                       *)
(***************************************************************************)
EXTENDS Integers, Sequences, FiniteSets

VARIABLES
    mem,        \* self.mem: the bytearray, as a sequence of bytes (mem[i+1] is byte i)
    regs,       \* self.regs: function 0..NUM_REGS-1 -> value
    ip,         \* self.ip
    running,    \* self.running
    start_time, \* self.start_time: "None" or "time" (the wall-clock reading, abstracted)
    opcount,    \* self.opcount
    pc,         \* position of the caller: "idle" (no call in progress) or a place in run()
    steps,      \* run()'s local steps
    max_steps,  \* run()'s parameter max_steps
    exc,        \* exception in flight in run(), or raised to the caller by the last call
    out,        \* standard output: the lines printed so far
    calls,      \* number of calls made on the VM so far
    base        \* history: ip, regs, opcount and Len(out) when the last run() began, and
                \* the same when the first of the runs it resumes began

vars == <<mem, regs, ip, running, start_time, opcount, pc, steps, max_steps, exc, out, calls, base>>

----------------------------------------------------------------------------
(* Bounds of the model *)

MemSize == 48
MaxCalls == 3
MaxBudget == 2
StepCap == 80

(* Program constants *)

NUM_REGS == 8
DefaultMaxSteps == 10000000

OP_NOP == 0
OP_HALT == 1
OP_LOAD_REG_IMM == 16
OP_MOV_REG_REG == 17
OP_ADD_REG_REG == 32
OP_SUB_REG_REG == 33
OP_JMP == 48
OP_JZ == 49
OP_PRINT_REG == 64
OP_DEBUG_STATE == 240

\* 2^16: 0xFFFFFFFF + 1 is Half * Half
Half == 256 * 256

----------------------------------------------------------------------------
(* Python integers of register width and beyond *)

Val(h, l) == [hi |-> h, lo |-> l]

ToVal(n) == Val(n \div Half, n % Half)

Zero == Val(0, 0)

\* a + b on Python ints
PyAdd(a, b) == Val(a.hi + b.hi + ((a.lo + b.lo) \div Half), (a.lo + b.lo) % Half)

\* a - b on Python ints
PySub(a, b) == Val(a.hi - b.hi + ((a.lo - b.lo) \div Half), (a.lo - b.lo) % Half)

\* x & 0xFFFFFFFF
Mask32(x) == Val(x.hi % Half, x.lo)

\* mutant of PyMod: only the low 16 bits of x are reduced
PyMod_LowHalf(x, n) == x.lo % n

\* x % n for a plain integer n > 0
PyMod(x, n) == (((x.hi % n) * (Half % n)) + (x.lo % n)) % n

\* struct.unpack(">I", <<b0, b1, b2, b3>>)
Unpack32(b0, b1, b2, b3) == Val(b0 * 256 + b1, b2 * 256 + b3)

\* struct.pack(">I", v)
Pack32(v) == <<v.hi \div 256, v.hi % 256, v.lo \div 256, v.lo % 256>>

----------------------------------------------------------------------------
(* Text: str(int), {:02X} *)

DigitChar == <<"0", "1", "2", "3", "4", "5", "6", "7", "8", "9">>

HexChar == <<"0", "1", "2", "3", "4", "5", "6", "7", "8", "9", "A", "B", "C", "D", "E", "F">>

DivTen(v) == Val(v.hi \div 10, (((v.hi % 10) * Half) + v.lo) \div 10)

ModTen(v) == (((v.hi % 10) * Half) + v.lo) % 10

RECURSIVE Digits(_)
Digits(v) ==
    IF v.hi = 0 /\ v.lo < 10 THEN <<DigitChar[v.lo + 1]>>
    ELSE Digits(DivTen(v)) \o <<DigitChar[ModTen(v) + 1]>>

\* str(v) for a value v
StrVal(v) == IF v.hi < 0 THEN <<"-">> \o Digits(PySub(Zero, v)) ELSE Digits(v)

\* str(n) for a plain integer n
StrInt(n) == StrVal(ToVal(n))

\* f"{b:02X}" for a byte b
Hex02(b) == <<HexChar[(b \div 16) + 1], HexChar[(b % 16) + 1]>>

----------------------------------------------------------------------------
(* The machine as a value: what fetch and step read and write *)

Machine == [mem |-> mem, regs |-> regs, ip |-> ip, running |-> running,
            opcount |-> opcount, out |-> out, exc |-> exc]

\* Python index i into a sequence of length n: valid iff -n <= i < n
ValidIndex(i, n) == (-n <= i) /\ (i < n)

PyIndex(i, n) == IF i < 0 THEN i + n ELSE i

\* self.mem[i]
MemAt(m, i) == m.mem[PyIndex(i, Len(m.mem)) + 1]

\* mutant of Reg: an encoding beyond the last register is taken as the last register
Reg_Clamp(b) == IF b > NUM_REGS - 1 THEN NUM_REGS - 1 ELSE b

Reg(b) == b % NUM_REGS

Raised(m) == m.exc # "none"

\* mutant of fetch_u8: ip is advanced even when the read raises
fetch_u8_AdvancesFirst(m) ==
    IF Raised(m) THEN [m |-> m, v |-> 0]
    ELSE IF ValidIndex(m.ip, Len(m.mem))
         THEN [m |-> [m EXCEPT !.ip = @ + 1], v |-> MemAt(m, m.ip)]
         ELSE [m |-> [m EXCEPT !.ip = @ + 1, !.exc = "IndexError"], v |-> 0]

\* mutant of fetch_u8: a fetch that cannot be read wraps to address 0
fetch_u8_Wraps(m) ==
    IF Raised(m) THEN [m |-> m, v |-> 0]
    ELSE IF ValidIndex(m.ip, Len(m.mem))
         THEN [m |-> [m EXCEPT !.ip = @ + 1], v |-> MemAt(m, m.ip)]
         ELSE [m |-> [m EXCEPT !.ip = 1], v |-> m.mem[1]]

\* fetch_u8: [m |-> machine after, v |-> byte read]
fetch_u8(m) ==
    IF Raised(m) THEN [m |-> m, v |-> 0]
    ELSE IF ValidIndex(m.ip, Len(m.mem))
         THEN [m |-> [m EXCEPT !.ip = @ + 1], v |-> MemAt(m, m.ip)]
         ELSE [m |-> [m EXCEPT !.exc = "IndexError"], v |-> 0]

\* struct.unpack_from(">I", buf, offset) accepts offset iff, after a negative
\* offset is counted from the end, 0 <= offset and offset + 4 <= len(buf)
ValidUnpack(i, n) == IF i < 0 THEN (i + 4 <= 0) /\ (i + n >= 0) ELSE n - i >= 4

\* mutant of fetch_u32: ip is advanced even when the read raises
fetch_u32_AdvancesFirst(m) ==
    IF Raised(m) THEN [m |-> m, v |-> Zero]
    ELSE IF ValidUnpack(m.ip, Len(m.mem))
         THEN [m |-> [m EXCEPT !.ip = @ + 4],
               v |-> Unpack32(MemAt(m, m.ip), MemAt(m, m.ip + 1),
                              MemAt(m, m.ip + 2), MemAt(m, m.ip + 3))]
         ELSE [m |-> [m EXCEPT !.exc = "struct.error", !.ip = @ + 4], v |-> Zero]

\* mutant of fetch_u32: the four bytes are read little-endian
fetch_u32_LittleEndian(m) ==
    IF Raised(m) THEN [m |-> m, v |-> Zero]
    ELSE IF ValidUnpack(m.ip, Len(m.mem))
         THEN [m |-> [m EXCEPT !.ip = @ + 4],
               v |-> Unpack32(MemAt(m, m.ip + 3), MemAt(m, m.ip + 2),
                              MemAt(m, m.ip + 1), MemAt(m, m.ip))]
         ELSE [m |-> [m EXCEPT !.exc = "struct.error"], v |-> Zero]

\* fetch_u32: [m |-> machine after, v |-> value read]
fetch_u32(m) ==
    IF Raised(m) THEN [m |-> m, v |-> Zero]
    ELSE IF ValidUnpack(m.ip, Len(m.mem))
         THEN [m |-> [m EXCEPT !.ip = @ + 4],
               v |-> Unpack32(MemAt(m, m.ip), MemAt(m, m.ip + 1),
                              MemAt(m, m.ip + 2), MemAt(m, m.ip + 3))]
         ELSE [m |-> [m EXCEPT !.exc = "struct.error"], v |-> Zero]

\* mutant of Emit: the new line is put before the lines already printed
Emit_First(m, line) == [m EXCEPT !.out = <<line>> \o @]

\* mutant of Emit: each line begins with the number of lines printed before it
Emit_Numbered(m, line) == [m EXCEPT !.out = Append(@, StrInt(Len(m.out)) \o line)]

\* print(...): one more line on standard output
Emit(m, line) == [m EXCEPT !.out = Append(@, line)]

\* " ".join(f"r{i}={self.regs[i]}" for i in range(i, NUM_REGS))
RECURSIVE RegsText(_, _)
RegsText(m, i) ==
    IF i >= NUM_REGS THEN <<>>
    ELSE (IF i = 0 THEN <<>> ELSE <<" ">>)
         \o <<"r">> \o StrInt(i) \o <<"=">> \o StrVal(m.regs[i]) \o RegsText(m, i + 1)

DebugLine(m) == <<"IP=">> \o StrInt(m.ip) \o <<" ">> \o RegsText(m, 0)

\* debug_state()
debug_state(m) == Emit(m, DebugLine(m))

UnknownLine(opcode, at) == <<"Unknown opcode 0x">> \o Hex02(opcode) \o <<" at ">> \o StrInt(at)

----------------------------------------------------------------------------
(* step(): one operator per opcode; m is the machine after the opcode byte *)
(* was fetched and opcount incremented.  An operand fetch that raises      *)
(* leaves the machine as it was when the exception was raised.             *)

\* mutant of ExecNOP: NOP swallows the byte after it
ExecNOP_SkipsByte(m) == [m EXCEPT !.ip = @ + 1]

ExecNOP(m) == m

\* mutant of ExecHALT: the HALT byte is overwritten with NOP once executed
ExecHALT_ErasesItself(m) ==
    [m EXCEPT !.running = FALSE,
              !.mem = [@ EXCEPT ![PyIndex(m.ip - 1, Len(@)) + 1] = OP_NOP]]

\* mutant of ExecHALT: running is left as it was
ExecHALT_Ignored(m) == m

ExecHALT(m) == [m EXCEPT !.running = FALSE]

ExecLOAD_REG_IMM(m) ==
    LET r == fetch_u8(m)
        imm == fetch_u32(r.m)
    IN IF Raised(imm.m) THEN imm.m
       ELSE [imm.m EXCEPT !.regs[Reg(r.v)] = imm.v]

\* mutant of ExecMOV_REG_REG: the two registers are exchanged
ExecMOV_REG_REG_Swap(m) ==
    LET dst == fetch_u8(m)
        src == fetch_u8(dst.m)
    IN IF Raised(src.m) THEN src.m
       ELSE [src.m EXCEPT !.regs = [@ EXCEPT ![Reg(dst.v)] = m.regs[Reg(src.v)],
                                             ![Reg(src.v)] = m.regs[Reg(dst.v)]]]

ExecMOV_REG_REG(m) ==
    LET dst == fetch_u8(m)
        src == fetch_u8(dst.m)
    IN IF Raised(src.m) THEN src.m
       ELSE [src.m EXCEPT !.regs[Reg(dst.v)] = m.regs[Reg(src.v)]]

\* mutant of ExecADD_REG_REG: the sum is stored without & 0xFFFFFFFF
ExecADD_REG_REG_NoMask(m) ==
    LET dst == fetch_u8(m)
        src == fetch_u8(dst.m)
    IN IF Raised(src.m) THEN src.m
       ELSE [src.m EXCEPT !.regs[Reg(dst.v)] =
                PyAdd(m.regs[Reg(dst.v)], m.regs[Reg(src.v)])]

ExecADD_REG_REG(m) ==
    LET dst == fetch_u8(m)
        src == fetch_u8(dst.m)
    IN IF Raised(src.m) THEN src.m
       ELSE [src.m EXCEPT !.regs[Reg(dst.v)] =
                Mask32(PyAdd(m.regs[Reg(dst.v)], m.regs[Reg(src.v)]))]

\* mutant of ExecSUB_REG_REG: the difference is stored without & 0xFFFFFFFF
ExecSUB_REG_REG_NoMask(m) ==
    LET dst == fetch_u8(m)
        src == fetch_u8(dst.m)
    IN IF Raised(src.m) THEN src.m
       ELSE [src.m EXCEPT !.regs[Reg(dst.v)] =
                PySub(m.regs[Reg(dst.v)], m.regs[Reg(src.v)])]

ExecSUB_REG_REG(m) ==
    LET dst == fetch_u8(m)
        src == fetch_u8(dst.m)
    IN IF Raised(src.m) THEN src.m
       ELSE [src.m EXCEPT !.regs[Reg(dst.v)] =
                Mask32(PySub(m.regs[Reg(dst.v)], m.regs[Reg(src.v)]))]

ExecJMP(m) ==
    LET addr == fetch_u32(m)
    IN IF Raised(addr.m) THEN addr.m
       ELSE [addr.m EXCEPT !.ip = PyMod(addr.v, Len(m.mem))]

\* mutant of ExecJZ: the test looks at the low 16 bits of the register only
ExecJZ_LowHalf(m) ==
    LET r == fetch_u8(m)
        addr == fetch_u32(r.m)
    IN IF Raised(addr.m) THEN addr.m
       ELSE IF m.regs[Reg(r.v)].lo = 0
            THEN [addr.m EXCEPT !.ip = PyMod(addr.v, Len(m.mem))]
            ELSE addr.m

ExecJZ(m) ==
    LET r == fetch_u8(m)
        addr == fetch_u32(r.m)
    IN IF Raised(addr.m) THEN addr.m
       ELSE IF m.regs[Reg(r.v)] = Zero
            THEN [addr.m EXCEPT !.ip = PyMod(addr.v, Len(m.mem))]
            ELSE addr.m

ExecPRINT_REG(m) ==
    LET r == fetch_u8(m)
    IN IF Raised(r.m) THEN r.m
       ELSE Emit(r.m, StrVal(m.regs[Reg(r.v)]))

\* mutant of ExecDEBUG_STATE: the line shows ip as it was before the opcode fetch
ExecDEBUG_STATE_BeforeFetch(m) == Emit(m, DebugLine([m EXCEPT !.ip = @ - 1]))

ExecDEBUG_STATE(m) == debug_state(m)

\* mutant of ExecUnknown: an unknown opcode raises like a bad fetch
ExecUnknown_Raises(m, opcode) == [m EXCEPT !.exc = "IndexError"]

\* mutant of ExecUnknown: the address after the opcode byte is reported
ExecUnknown_AddressAfter(m, opcode) ==
    [Emit(m, UnknownLine(opcode, m.ip)) EXCEPT !.running = FALSE]

ExecUnknown(m, opcode) ==
    [Emit(m, UnknownLine(opcode, m.ip - 1)) EXCEPT !.running = FALSE]

Dispatch(m, opcode) ==
    CASE opcode = OP_NOP -> ExecNOP(m)
      [] opcode = OP_HALT -> ExecHALT(m)
      [] opcode = OP_LOAD_REG_IMM -> ExecLOAD_REG_IMM(m)
      [] opcode = OP_MOV_REG_REG -> ExecMOV_REG_REG(m)
      [] opcode = OP_ADD_REG_REG -> ExecADD_REG_REG(m)
      [] opcode = OP_SUB_REG_REG -> ExecSUB_REG_REG(m)
      [] opcode = OP_JMP -> ExecJMP(m)
      [] opcode = OP_JZ -> ExecJZ(m)
      [] opcode = OP_PRINT_REG -> ExecPRINT_REG(m)
      [] opcode = OP_DEBUG_STATE -> ExecDEBUG_STATE(m)
      [] OTHER -> ExecUnknown(m, opcode)

\* mutant of step: opcount is not incremented
\* mutant of step: the opcode is counted before it is fetched
step_CountsBefore(m) ==
    LET opcode == fetch_u8([m EXCEPT !.opcount = @ + 1])
    IN IF Raised(opcode.m) THEN opcode.m
       ELSE Dispatch(opcode.m, opcode.v)

\* mutant of step: the opcode is counted once its instruction has completed
step_CountsAfter(m) ==
    LET opcode == fetch_u8(m)
        done == Dispatch(opcode.m, opcode.v)
    IN IF Raised(opcode.m) THEN opcode.m
       ELSE IF Raised(done) THEN done
            ELSE [done EXCEPT !.opcount = @ + 1]

step_NoCount(m) ==
    LET opcode == fetch_u8(m)
    IN IF Raised(opcode.m) THEN opcode.m
       ELSE Dispatch(opcode.m, opcode.v)

\* step(): the machine after one step; exc # "none" when the step raised
step(m) ==
    LET opcode == fetch_u8(m)
    IN IF Raised(opcode.m) THEN opcode.m
       ELSE Dispatch([opcode.m EXCEPT !.opcount = @ + 1], opcode.v)

----------------------------------------------------------------------------
(* load() *)

\* a slice bound i adjusted to a sequence of length n, as Python adjusts it
Clamp(i, n) ==
    IF i < 0 THEN (IF i + n < 0 THEN 0 ELSE i + n)
    ELSE IF i > n THEN n ELSE i

\* buf[addr:addr+len(data)] = data
SliceAssign(buf, addr, data) ==
    LET n == Len(buf)
        start == Clamp(addr, n)
        stop0 == Clamp(addr + Len(data), n)
        stop == IF stop0 < start THEN start ELSE stop0
    IN SubSeq(buf, 1, start) \o data \o SubSeq(buf, stop + 1, n)

\* mutant of load: the registers and the operation count are reset for the new program
load_ResetsRegisters(m, data, addr) ==
    [m EXCEPT !.mem = SliceAssign(@, addr, data), !.ip = addr,
              !.regs = [i \in 0..(NUM_REGS - 1) |-> Zero], !.opcount = 0]

\* mutant of load: ip is left where it was
load_KeepsIp(m, data, addr) == [m EXCEPT !.mem = SliceAssign(@, addr, data)]

\* load(data, addr)
load(m, data, addr) == [m EXCEPT !.mem = SliceAssign(@, addr, data), !.ip = addr]

----------------------------------------------------------------------------
(* run()'s lines *)

ExcText(e) ==
    IF e = "IndexError" THEN "bytearray index out of range" ELSE "<struct.error message>"

CrashLine(e) == <<"VM crashed:", " ", ExcText(e)>>

\* mutant of SummaryLine: the step count is printed in both places
SummaryLine_StepsTwice(n, ops) ==
    <<"Stopped after ">> \o StrInt(n) \o <<" steps, opcount=">> \o StrInt(n)
        \o <<", elapsed=", "<elapsed>", "s">>

SummaryLine(n, ops) ==
    <<"Stopped after ">> \o StrInt(n) \o <<" steps, opcount=">> \o StrInt(ops)
        \o <<", elapsed=", "<elapsed>", "s">>

\* except Exception as e: print("VM crashed:", e); self.running = False
Handler(m) == [Emit(m, CrashLine(m.exc)) EXCEPT !.running = FALSE, !.exc = "none"]

\* the while loop of run() from machine m with n steps done, and its handler
RECURSIVE RunLoop(_, _, _)
RunLoop(m, n, k) ==
    IF m.running /\ n < k
    THEN LET s == step(m)
         IN IF Raised(s) THEN [m |-> Handler(s), steps |-> n]
            ELSE RunLoop(s, n + 1, k)
    ELSE [m |-> m, steps |-> n]

\* run(k) as one function of the machine: the machine when run() returns
run(m, k) ==
    LET r == RunLoop([m EXCEPT !.running = TRUE, !.exc = "none"], 0, k)
    IN Emit(r.m, SummaryLine(r.steps, r.m.opcount))

----------------------------------------------------------------------------
(* demo_program() and assemble helpers *)

\* the parts given to assemble_bytes: an int, a bytes object, a ("u32", v) tuple, anything else
\* (n, b and v hold the int, the bytes and the value; the fields a kind does not use are empty)
IntPart(n) == [kind |-> "int", n |-> n, b |-> <<>>, v |-> Zero]
BytesPart(b) == [kind |-> "bytes", n |-> 0, b |-> b, v |-> Zero]
U32Part(v) == [kind |-> "u32", n |-> 0, b |-> <<>>, v |-> v]
OtherPart == [kind |-> "other", n |-> 0, b |-> <<>>, v |-> Zero]

\* mutant of AsmPart: the four bytes of a ("u32", v) part are written low byte first
AsmPart_LittleEndian(a, p) ==
    CASE p.kind = "int" ->
            IF p.n \in 0..255 THEN [a EXCEPT !.out = Append(@, p.n)]
            ELSE [a EXCEPT !.exc = "ValueError"]
      [] p.kind = "bytes" -> [a EXCEPT !.out = @ \o p.b]
      [] p.kind = "u32" ->
            IF p.v.hi \in 0..(Half - 1)
            THEN [a EXCEPT !.out = @ \o <<p.v.lo % 256, p.v.lo \div 256,
                                           p.v.hi % 256, p.v.hi \div 256>>]
            ELSE [a EXCEPT !.exc = "struct.error"]
      [] OTHER -> [a EXCEPT !.exc = "ValueError"]

\* one iteration of assemble_bytes' loop: part p is added to a.out, or an exception is raised
\* (bytearray.append of an int outside range(256), struct.pack of a value outside 32 bits)
AsmPart(a, p) ==
    CASE p.kind = "int" ->
            IF p.n \in 0..255 THEN [a EXCEPT !.out = Append(@, p.n)]
            ELSE [a EXCEPT !.exc = "ValueError"]
      [] p.kind = "bytes" -> [a EXCEPT !.out = @ \o p.b]
      [] p.kind = "u32" ->
            IF p.v.hi \in 0..(Half - 1)
            THEN [a EXCEPT !.out = @ \o Pack32(p.v)]
            ELSE [a EXCEPT !.exc = "struct.error"]
      [] OTHER -> [a EXCEPT !.exc = "ValueError"]

\* the loop of assemble_bytes from part i on
RECURSIVE AsmFrom(_, _, _)
AsmFrom(a, parts, i) ==
    IF i > Len(parts) \/ a.exc # "none" THEN a
    ELSE AsmFrom(AsmPart(a, parts[i]), parts, i + 1)

\* assemble_bytes(*parts): [out |-> the bytearray, exc |-> the exception raised, if any]
assemble_bytes(parts) == AsmFrom([out |-> <<>>, exc |-> "none"], parts, 1)

\* prog.find(bytes([b])) from position i (0-based), -1 when absent
RECURSIVE FindFrom(_, _, _)
FindFrom(prog, b, i) ==
    IF i >= Len(prog) THEN -1
    ELSE IF prog[i + 1] = b THEN i ELSE FindFrom(prog, b, i + 1)

\* struct.pack_into(">I", prog, off, v)
PackInto(prog, off, v) ==
    [k \in 1..Len(prog) |->
        IF (k - 1 >= off) /\ (k - 1 < off + 4) THEN Pack32(v)[k - off] ELSE prog[k]]

DemoSetup ==
    <<OP_LOAD_REG_IMM, 0>> \o Pack32(ToVal(0))
    \o <<OP_LOAD_REG_IMM, 1>> \o Pack32(ToVal(10))

loop_addr == Len(DemoSetup)

DemoLoop ==
    DemoSetup
    \o <<OP_PRINT_REG, 0>>
    \o <<OP_LOAD_REG_IMM, 2>> \o Pack32(ToVal(1))
    \o <<OP_ADD_REG_REG, 0, 2>>
    \o <<OP_MOV_REG_REG, 3, 0>>
    \o <<OP_SUB_REG_REG, 3, 1>>
    \o <<OP_JZ, 3>> \o Pack32(ToVal(0))
    \o <<OP_JMP>> \o Pack32(ToVal(loop_addr))

end_addr == Len(DemoLoop)

DemoParts == DemoLoop \o <<OP_HALT>>

\* mutant of demo_program: the JZ placeholder is never patched
demo_program_Unpatched == DemoParts

demo_program ==
    LET idx == FindFrom(DemoParts, OP_JZ, 0)
    IN IF idx # -1 THEN PackInto(DemoParts, idx + 2, ToVal(end_addr)) ELSE DemoParts

----------------------------------------------------------------------------
(* Program images the model loads, in the instruction format of the file's *)
(* header: 1-byte opcode, then its operands, big-endian.                   *)

\* wrap-around arithmetic, aliased and out-of-range register encodings
ArithProgram ==
    <<OP_LOAD_REG_IMM, 1, 255, 255, 255, 255>>      \*  0: r1 = 0xFFFFFFFF
    \o <<OP_LOAD_REG_IMM, 2, 0, 0, 0, 1>>           \*  6: r2 = 1
    \o <<OP_ADD_REG_REG, 1, 2>>                     \* 12: r1 = r1 + r2
    \o <<OP_SUB_REG_REG, 1, 2>>                     \* 15: r1 = r1 - r2
    \o <<OP_ADD_REG_REG, 9, 1>>                     \* 18: r1 = r1 + r1 (9 is r1)
    \o <<OP_LOAD_REG_IMM, 255, 128, 0, 0, 0>>       \* 21: r7 = 0x80000000 (255 is r7)
    \o <<OP_ADD_REG_REG, 7, 15>>                    \* 27: r7 = r7 + r7 (15 is r7)
    \o <<OP_SUB_REG_REG, 7, 2>>                     \* 30: r7 = r7 - r2
    \o <<OP_PRINT_REG, 1>>                          \* 33
    \o <<OP_HALT>>                                  \* 35

\* jumps: a register that is not 0 although its low half is, targets beyond memory
JumpProgram ==
    <<OP_LOAD_REG_IMM, 0, 0, 1, 0, 0>>              \*  0: r0 = 0x00010000
    \o <<OP_JZ, 0, 0, 0, 0, 0>>                     \*  6: r0 # 0: falls through
    \o <<OP_JMP, 255, 254, 255, 226>>               \* 12: jumps to 0xFFFEFFE2 mod len
    \o <<255>>                                      \* 17: no such opcode
    \o <<OP_JZ, 9, 0, 1, 0, 9>>                     \* 18: r1 = 0: jumps to 0x00010009 mod len
    \o <<OP_HALT>>                                  \* 24
    \o <<OP_DEBUG_STATE>>                           \* 25
    \o <<OP_HALT>>                                  \* 26

\* PRINT_REG and DEBUG_STATE in turn, the register changed in between
TraceProgram ==
    <<OP_LOAD_REG_IMM, 0, 0, 0, 0, 5>>              \*  0: r0 = 5
    \o <<OP_PRINT_REG, 0>>                          \*  6
    \o <<OP_DEBUG_STATE>>                           \*  8
    \o <<OP_LOAD_REG_IMM, 0, 0, 0, 0, 6>>           \*  9: r0 = 6
    \o <<OP_PRINT_REG, 8>>                          \* 15 (8 is r0)
    \o <<OP_DEBUG_STATE>>                           \* 17
    \o <<OP_HALT>>                                  \* 18

\* JMP to itself when loaded at 0
LoopProgram == <<OP_JMP, 0, 0, 0, 0>>

\* (data, addr) pairs given to load()
LoadInputs ==
    { <<demo_program, 0>>,
      <<ArithProgram, 0>>,
      <<JumpProgram, 0>>,
      <<LoopProgram, 0>>,
      <<TraceProgram, 0>>,
      <<<<255>>, 5>>,                               \* unknown opcode, past four NOPs
      <<<<OP_LOAD_REG_IMM, 1>>, MemSize - 2>>,      \* operand runs off the end
      <<<<OP_MOV_REG_REG, 3>>, MemSize - 2>>,       \* second operand byte is off the end
      <<<<OP_DEBUG_STATE, OP_NOP>>, MemSize - 1>>,  \* addr + len(data) > len(mem)
      <<<<OP_HALT>>, MemSize + 2>>,                 \* addr > len(mem)
      <<<<OP_HALT>>, -1>>,                          \* addr < 0
      <<<<OP_LOAD_REG_IMM, 1, 0, 0, 0, 7>>, MemSize - 6>>,  \* the last six bytes
      <<<<>>, -6>>,                                 \* no bytes: only ip moves, to 6 from the end
      <<<<>>, MemSize>> }                           \* no bytes, at the end: addr + len(data) = N

\* max_steps given to run(); DefaultMaxSteps is run()
\* 32-bit values given to assemble_bytes as ("u32", v)
AsmValues == {Val(258, 772), Val(1, 0), Val(65535, 65535), Val(32768, 1)}

\* part lists given to assemble_bytes
AsmInputs ==
    { <<IntPart(OP_LOAD_REG_IMM), IntPart(13), U32Part(v)>> : v \in AsmValues }
    \cup { <<BytesPart(<<OP_NOP, OP_LOAD_REG_IMM>>), IntPart(6), U32Part(Val(0, 255)),
             BytesPart(<<>>), IntPart(OP_HALT)>>,
           <<IntPart(OP_NOP), OtherPart, IntPart(OP_HALT)>>,         \* ValueError("unknown part")
           <<IntPart(256)>>,                                         \* not a byte
           <<U32Part(Val(-1, 65535))>> }                             \* ("u32", -1)

Budgets == (0..MaxBudget) \cup {DefaultMaxSteps}

----------------------------------------------------------------------------
(* State machine *)

\* TinyVM(memsize=MemSize)
Init ==
    /\ mem = [i \in 1..MemSize |-> 0]
    /\ regs = [i \in 0..(NUM_REGS - 1) |-> Zero]
    /\ ip = 0
    /\ running = FALSE
    /\ start_time = "None"
    /\ opcount = 0
    /\ pc = "idle"
    /\ steps = 0
    /\ max_steps = 0
    /\ exc = "none"
    /\ out = <<>>
    /\ calls = 0
    /\ base = [ip |-> 0, regs |-> [i \in 0..(NUM_REGS - 1) |-> Zero], opcount |-> 0, out |-> 0,
               calls |-> 0, resumed |-> FALSE, spent |-> 0,
               from |-> [ip |-> 0, regs |-> [i \in 0..(NUM_REGS - 1) |-> Zero],
                         opcount |-> 0, out |-> 0]]

\* the VM's fields, and standard output, become those of m
Becomes(m) ==
    /\ mem' = m.mem
    /\ regs' = m.regs
    /\ ip' = m.ip
    /\ running' = m.running
    /\ opcount' = m.opcount
    /\ out' = m.out
    /\ exc' = m.exc

\* a call may begin: no call is in progress
CanCall == pc = "idle" /\ calls < MaxCalls

\* a new call starts with no exception
Entered == [Machine EXCEPT !.exc = "none"]

\* vm.load(data, addr)
Load(data, addr) ==
    /\ CanCall
    /\ Becomes(load(Entered, data, addr))
    /\ calls' = calls + 1
    /\ UNCHANGED <<start_time, pc, steps, max_steps, base>>

\* vm.load(assemble_bytes(*parts), addr): an exception of assemble_bytes goes to the
\* caller and load() is not called
LoadAssembled(parts, addr) ==
    /\ CanCall
    /\ IF assemble_bytes(parts).exc # "none"
       THEN /\ exc' = assemble_bytes(parts).exc
            /\ UNCHANGED <<mem, regs, ip, running, opcount, out>>
       ELSE Becomes(load(Entered, assemble_bytes(parts).out, addr))
    /\ calls' = calls + 1
    /\ UNCHANGED <<start_time, pc, steps, max_steps, base>>

\* vm.step(), called directly; an exception goes to the caller
Step ==
    /\ CanCall
    /\ Becomes(step(Entered))
    /\ calls' = calls + 1
    /\ UNCHANGED <<start_time, pc, steps, max_steps, base>>

\* vm.debug_state(), called directly
DebugState ==
    /\ CanCall
    /\ Becomes(debug_state(Entered))
    /\ calls' = calls + 1
    /\ UNCHANGED <<start_time, pc, steps, max_steps, base>>

\* what the history keeps of the VM at the start of a run()
Snapshot == [ip |-> ip, regs |-> regs, opcount |-> opcount, out |-> Len(out)]

\* the call before this one was a run() that returned with running still true:
\* its loop ended because steps reached max_steps
Resumes == start_time = "time" /\ calls = base.calls /\ running

\* the history as a run() beginning now leaves it
History ==
    [ip |-> ip, regs |-> regs, opcount |-> opcount, out |-> Len(out),
     calls |-> calls + 1,
     resumed |-> Resumes,
     spent |-> IF Resumes THEN base.spent + max_steps ELSE 0,
     from |-> IF Resumes THEN base.from ELSE Snapshot]

\* mutant of RunBegin: running is not set, so a HALT of an earlier run still holds
RunBegin_StickyHalt(ms) ==
    /\ CanCall
    /\ start_time' = "time"
    /\ steps' = 0
    /\ max_steps' = ms
    /\ exc' = "none"
    /\ pc' = "loop"
    /\ calls' = calls + 1
    /\ base' = History
    /\ UNCHANGED <<mem, regs, ip, running, opcount, out>>

\* mutant of RunBegin: run() starts again from address 0
RunBegin_FromZero(ms) ==
    /\ CanCall
    /\ running' = TRUE
    /\ start_time' = "time"
    /\ steps' = 0
    /\ max_steps' = ms
    /\ exc' = "none"
    /\ pc' = "loop"
    /\ calls' = calls + 1
    /\ base' = History
    /\ ip' = 0
    /\ UNCHANGED <<mem, regs, opcount, out>>

\* vm.run(ms), up to the while loop
RunBegin(ms) ==
    /\ CanCall
    /\ running' = TRUE
    /\ start_time' = "time"
    /\ steps' = 0
    /\ max_steps' = ms
    /\ exc' = "none"
    /\ pc' = "loop"
    /\ calls' = calls + 1
    /\ base' = History
    /\ UNCHANGED <<mem, regs, ip, opcount, out>>

\* mutant of LoopCond: the body runs once before the budget is looked at
LoopCond_AtLeastOnce == running /\ (steps = 0 \/ steps < max_steps)

\* mutant of LoopCond: the budget is not looked at
LoopCond_NoBudget == running

\* mutant of LoopCond: one step too many
LoopCond_OffByOne == running /\ steps <= max_steps

\* the loop condition of run()
LoopCond == running /\ steps < max_steps

\* mutant of RunStep: the step that raised is counted too
RunStep_CountsFaulting ==
    /\ pc = "loop"
    /\ LoopCond
    /\ steps < StepCap
    /\ Becomes(step(Machine))
    /\ steps' = steps + 1
    /\ pc' = (IF Raised(step(Machine)) THEN "except" ELSE "loop")
    /\ UNCHANGED <<start_time, max_steps, calls, base>>

\* one iteration of the while loop: step(), then steps += 1 unless step() raised
RunStep ==
    /\ pc = "loop"
    /\ LoopCond
    /\ steps < StepCap
    /\ Becomes(step(Machine))
    /\ IF Raised(step(Machine))
       THEN pc' = "except" /\ steps' = steps
       ELSE pc' = "loop" /\ steps' = steps + 1
    /\ UNCHANGED <<start_time, max_steps, calls, base>>

\* the loop condition is false: on to the summary
RunExit ==
    /\ pc = "loop"
    /\ ~LoopCond
    /\ pc' = "summary"
    /\ UNCHANGED <<mem, regs, ip, running, start_time, opcount, steps, max_steps, exc, out, calls, base>>

\* mutant of RunExcept: there is no handler, the exception leaves run()
RunExcept_Escapes ==
    /\ pc = "except"
    /\ pc' = "idle"
    /\ UNCHANGED <<mem, regs, ip, running, start_time, opcount, steps, max_steps, exc, out, calls, base>>

\* mutant of RunExcept: the handler forgets self.running = False
RunExcept_KeepsRunning ==
    /\ pc = "except"
    /\ out' = Append(out, CrashLine(exc))
    /\ exc' = "none"
    /\ pc' = "summary"
    /\ UNCHANGED <<mem, regs, ip, running, start_time, opcount, steps, max_steps, calls, base>>

\* except Exception as e: print("VM crashed:", e); self.running = False
RunExcept ==
    /\ pc = "except"
    /\ out' = Append(out, CrashLine(exc))
    /\ running' = FALSE
    /\ exc' = "none"
    /\ pc' = "summary"
    /\ UNCHANGED <<mem, regs, ip, start_time, opcount, steps, max_steps, calls, base>>

\* the summary line; run() returns
RunSummary ==
    /\ pc = "summary"
    /\ out' = Append(out, SummaryLine(steps, opcount))
    /\ pc' = "idle"
    /\ UNCHANGED <<mem, regs, ip, running, start_time, opcount, steps, max_steps, exc, calls, base>>

Next ==
    \/ \E p \in LoadInputs : Load(p[1], p[2])
    \/ \E parts \in AsmInputs : LoadAssembled(parts, 0)
    \/ Step
    \/ DebugState
    \/ \E ms \in Budgets : RunBegin(ms)
    \/ RunStep
    \/ RunExit
    \/ RunExcept
    \/ RunSummary

Spec == Init /\ [][Next]_vars

\* ENABLED <<RunStep>>_vars: every iteration changes pc or steps
RunStepEnabled == pc = "loop" /\ LoopCond /\ steps < StepCap

\* run() is sequential code: once entered, its next statement is executed.
\* The first conjunct after Spec is WF_vars(RunStep) with its ENABLED written out.
FairSpec ==
    /\ Spec
    /\ ([]<>(~RunStepEnabled) \/ []<><<RunStep>>_vars)
    /\ WF_vars(RunExit) /\ WF_vars(RunExcept) /\ WF_vars(RunSummary)

----------------------------------------------------------------------------
(* Vocabulary of the properties *)

\* the byte k places after the instruction pointer, and whether it can be read
ByteAt(k) == MemAt(Machine, ip + k)
CanRead(k) == ValidIndex(ip + k, Len(mem))

\* this transition is a step() whose opcode fetch succeeded, on opcode op
Executes(op) == CanRead(0) /\ ByteAt(0) = op /\ opcount' = opcount + 1

\* (a + b) mod 2^32 and (a - b) mod 2^32 for a, b in [0, 2^32), by carry and borrow
WrapSum(a, b) ==
    LET l == a.lo + b.lo
        h == a.hi + b.hi + (IF l >= Half THEN 1 ELSE 0)
    IN Val(IF h >= Half THEN h - Half ELSE h, IF l >= Half THEN l - Half ELSE l)

WrapDiff(a, b) ==
    LET l == a.lo - b.lo
        h == a.hi - b.hi - (IF l < 0 THEN 1 ELSE 0)
    IN Val(IF h < 0 THEN h + Half ELSE h, IF l < 0 THEN l + Half ELSE l)

IsU32(v) == v.hi \in 0..(Half - 1) /\ v.lo \in 0..(Half - 1)

\* the 32-bit big-endian number in bytes b1..b4, modulo n, byte by byte
BytesMod(b1, b2, b3, b4, n) == ((((((b1 % n) * 256 + b2) % n) * 256 + b3) % n) * 256 + b4) % n

\* the bytes of the program image loaded at 0 are those of prog
Holds(prog) == Len(mem) >= Len(prog) /\ SubSeq(mem, 1, Len(prog)) = prog

\* the machine as it was when the run in progress began (load() is the only writer of mem)
StartMachine ==
    [mem |-> mem, regs |-> base.regs, ip |-> base.ip, running |-> TRUE,
     opcount |-> base.opcount, out |-> <<>>, exc |-> "none"]

\* the lines printed since the run in progress began
RunOut == SubSeq(out, base.out + 1, Len(out))

\* within its first k steps from m, execution reaches a HALT or an unknown opcode
RECURSIVE HaltsWithin(_, _)
HaltsWithin(m, k) ==
    IF k = 0 THEN FALSE
    ELSE LET n == step(m)
         IN IF Raised(n) THEN FALSE
            ELSE IF ~n.running THEN TRUE ELSE HaltsWithin(n, k - 1)

\* within its first k steps from m, execution reaches a HALT, an unknown opcode or a fault
RECURSIVE StopsWithin(_, _)
StopsWithin(m, k) ==
    IF k = 0 THEN FALSE
    ELSE LET n == step(m)
         IN IF Raised(n) \/ ~n.running THEN TRUE ELSE StopsWithin(n, k - 1)

IsCrashLine(line) == line[1] = "VM crashed:"

Crashed(lines) == \E i \in 1..Len(lines) : IsCrashLine(lines[i])

KnownOpcodes == {0, 1, 16, 17, 32, 33, 48, 49, 64, 240}

\* the lines "0" .. "9"
DemoLines == [i \in 1..10 |-> <<DigitChar[i]>>]

\* a run() with the default budget, begun at address 0 of a memory holding the demo program
DemoRun ==
    /\ pc \in {"loop", "except", "summary"}
    /\ Holds(demo_program)
    /\ base.ip = 0
    /\ max_steps = DefaultMaxSteps

\* the loop of run() is about to call step()
AboutToStep == pc = "loop" /\ running /\ steps < max_steps

\* step() from this state fetches a byte, or four, that Python cannot read
OperandFault ==
    CASE ByteAt(0) \in {OP_LOAD_REG_IMM, OP_JZ} -> ~CanRead(1) \/ ~ValidUnpack(ip + 2, Len(mem))
      [] ByteAt(0) \in {OP_MOV_REG_REG, OP_ADD_REG_REG, OP_SUB_REG_REG} -> ~CanRead(1) \/ ~CanRead(2)
      [] ByteAt(0) = OP_JMP -> ~ValidUnpack(ip + 1, Len(mem))
      [] ByteAt(0) = OP_PRINT_REG -> ~CanRead(1)
      [] OTHER -> FALSE

FaultsNow == ~CanRead(0) \/ OperandFault

IsSummaryLine(line) == line[1] = "Stopped after "

Summaries(lines) == {i \in 1..Len(lines) : IsSummaryLine(lines[i])}

----------------------------------------------------------------------------
(* C1: one step of ADD_REG_REG leaves dst = (a + b) mod 2^32 and one step  *)
(* of SUB_REG_REG leaves dst = (a - b) mod 2^32, where a and b are the     *)
(* values of the registers dst mod 8 and src mod 8 before the step, for    *)
(* any encodings; the step raises nothing and leaves running as it was.    *)
C1_AddSubWrap ==
    [][ ((Executes(OP_ADD_REG_REG) \/ Executes(OP_SUB_REG_REG)) /\ CanRead(1) /\ CanRead(2))
        => LET a == regs[ByteAt(1) % 8]
               b == regs[ByteAt(2) % 8]
           IN /\ IsU32(a) /\ IsU32(b)
              /\ regs'[ByteAt(1) % 8] =
                    (IF ByteAt(0) = OP_ADD_REG_REG THEN WrapSum(a, b) ELSE WrapDiff(a, b))
              /\ IsU32(regs'[ByteAt(1) % 8])
              /\ exc' = "none"
              /\ running' = running
              /\ ip' = ip + 3 ]_vars

\* ArithProgram after its SUB at 15: 0xFFFFFFFF + 1 wrapped to 0, then 0 - 1 wrapped back
C1_Witness ==
    /\ Holds(ArithProgram)
    /\ ip = 18 /\ opcount = 4
    /\ regs[1] = Val(65535, 65535) /\ regs[2] = Val(0, 1)

(* C2: for every register encoding byte and every 32-bit immediate v,      *)
(* LOAD_REG_IMM reg, v leaves v in register (encoding mod 8): packing the  *)
(* register big-endian gives back the four immediate bytes.                *)
C2_LoadImmRoundTrip ==
    [][ (Executes(OP_LOAD_REG_IMM) /\ CanRead(1) /\ ValidUnpack(ip + 2, Len(mem)))
        => /\ Pack32(regs'[ByteAt(1) % 8]) = <<ByteAt(2), ByteAt(3), ByteAt(4), ByteAt(5)>>
           /\ IsU32(regs'[ByteAt(1) % 8])
           /\ exc' = "none" ]_vars

\* ArithProgram after LOAD_REG_IMM 255, 0x80000000: encoding 255 is register 7
C2_Witness ==
    /\ Holds(ArithProgram)
    /\ ip = 27 /\ opcount = 6
    /\ regs[7] = Val(32768, 0)

(* C3: JMP addr sets IP to addr mod memory length for every 32-bit addr;   *)
(* after any executed jump (JMP, or JZ on a register that is 0) IP is in   *)
(* [0, memory length).                                                     *)
C3_JumpInRange ==
    [][ /\ (Executes(OP_JMP) /\ ValidUnpack(ip + 1, Len(mem)))
           => /\ ip' = BytesMod(ByteAt(1), ByteAt(2), ByteAt(3), ByteAt(4), Len(mem))
              /\ ip' \in 0..(Len(mem) - 1)
        /\ (Executes(OP_JZ) /\ CanRead(1) /\ ValidUnpack(ip + 2, Len(mem))
              /\ regs[ByteAt(1) % 8] = Zero)
           => ip' \in 0..(Len(mem) - 1) ]_vars

\* JumpProgram after JMP 0xFFFEFFE2 at 12: 4294901730 mod 48 = 18
C3_Witness ==
    /\ Holds(JumpProgram)
    /\ Len(mem) = 48
    /\ opcount = 3 /\ ip = 18

(* C4: JZ reg, addr sets IP to addr mod memory length when the register    *)
(* (encoding mod 8) is exactly 0; otherwise IP is the JZ's address + 6.    *)
(* Either way registers, memory, the running flag and the output are       *)
(* unchanged and nothing is raised (the step itself is counted).           *)
C4_JzIffZero ==
    [][ (Executes(OP_JZ) /\ CanRead(1) /\ ValidUnpack(ip + 2, Len(mem)))
        => /\ ip' = (IF regs[ByteAt(1) % 8].hi = 0 /\ regs[ByteAt(1) % 8].lo = 0
                     THEN BytesMod(ByteAt(2), ByteAt(3), ByteAt(4), ByteAt(5), Len(mem))
                     ELSE ip + 6)
           /\ regs' = regs /\ mem' = mem /\ running' = running /\ out' = out
           /\ exc' = "none" ]_vars

\* JumpProgram after both JZ: r0 = 0x00010000 fell through at 6, r1 = 0 jumped at 18
C4_Witness ==
    /\ Holds(JumpProgram)
    /\ Len(mem) = 48
    /\ opcount = 4 /\ ip = 25
    /\ regs[0] = Val(1, 0) /\ regs[1] = Zero

(* C5: when a run() executes a HALT, running becomes false and the step    *)
(* count, HALT included, equals the number of instructions executed in     *)
(* that run; once running is false the loop executes no further            *)
(* instruction, and run() returns with that step count and running false.  *)
C5_HaltStopsRun ==
    [][ /\ (pc = "loop" /\ Executes(OP_HALT))
           => /\ running' = FALSE
              /\ steps' = steps + 1
              /\ steps' = opcount' - base.opcount
              /\ pc' = "loop" /\ exc' = "none"
        /\ (pc = "loop" /\ ~running)
           => /\ pc' = "summary"
              /\ UNCHANGED <<mem, regs, ip, running, opcount, steps, out>>
        /\ (pc = "summary" /\ ~running)
           => /\ pc' = "idle"
              /\ out' = Append(out, SummaryLine(steps, opcount))
              /\ UNCHANGED <<mem, regs, ip, running, opcount, steps>> ]_vars

\* the demo program's run has just executed its HALT at 40, as its 72nd step
C5_Witness ==
    /\ pc = "loop" /\ ~running
    /\ Holds(demo_program)
    /\ ip = 41 /\ steps = 72

(* C6: fetching an opcode byte that is not in the instruction table sets   *)
(* running to false and prints the diagnostic with the opcode and the      *)
(* address of that opcode byte itself (IP when it was fetched).            *)
C6_UnknownOpcodeOffset ==
    [][ (CanRead(0) /\ opcount' = opcount + 1 /\ ByteAt(0) \notin KnownOpcodes)
        => /\ running' = FALSE
           /\ out' = Append(out, <<"Unknown opcode 0x">> \o Hex02(ByteAt(0))
                                    \o <<" at ">> \o StrInt(ip))
           /\ ip' = ip + 1
           /\ exc' = "none" ]_vars

\* the byte 0xFF at address 5 was fetched in a run: "Unknown opcode 0xFF at 5"
C6_Witness ==
    /\ pc = "loop" /\ ~running
    /\ ip = 6
    /\ out # <<>>
    /\ out[Len(out)] = <<"Unknown opcode 0x", "F", "F", " at ", "5">>

(* C7: run() on the demo program loaded at address 0 prints exactly the    *)
(* lines 0, 1, ..., 9 in that order and then halts: it never raises, its   *)
(* output is always a prefix of those ten lines, it takes at most 72       *)
(* steps, and when the loop ends all ten lines are out and running is      *)
(* false.                                                                  *)
C7_DemoPrintsZeroToNine ==
    DemoRun
    => /\ pc # "except"
       /\ Len(RunOut) <= 10
       /\ RunOut = SubSeq(DemoLines, 1, Len(RunOut))
       /\ steps <= 72
       /\ (steps = 72 => ~running)
       /\ ((pc = "summary" \/ ~running) => (RunOut = DemoLines /\ ~running /\ steps = 72))

\* fresh VM, load(demo_program(), 0), run(): the loop has ended after the ten lines
C7_Witness ==
    /\ DemoRun /\ pc = "summary"
    /\ calls = 2 /\ base.opcount = 0 /\ base.out = 0
    /\ out = DemoLines
    /\ ~running

(* C8 as the spec states it: after the demo program ran to completion on a *)
(* fresh VM the operation count is 40.                                     *)
C8_OpcountIs40 ==
    (DemoRun /\ pc = "summary" /\ base.opcount = 0) => opcount = 40

(* C8, amended: after the demo program ran to completion on a VM whose     *)
(* operation count was 0, the operation count is 72 (2 setup loads, ten    *)
(* times PRINT, LOAD, ADD, MOV, SUB, JZ, nine JMP, one HALT), and so is    *)
(* the step count.                                                         *)
C8_OpcountIs72 ==
    (DemoRun /\ pc = "summary" /\ base.opcount = 0) => (opcount = 72 /\ steps = 72)

\* the demo program ran to completion on a fresh VM and counted 72 opcodes
C8_Witness ==
    /\ DemoRun /\ pc = "summary"
    /\ calls = 2 /\ base.opcount = 0
    /\ opcount = 72

(* C9: when the budget max_steps is smaller than the number of steps the   *)
(* program needs to reach a HALT, an unknown opcode or a fault, run()      *)
(* leaves its loop after exactly max_steps steps with running still true   *)
(* and no crash diagnostic printed.                                        *)
C9_BudgetExhaustion ==
    (pc = "summary" /\ ~StopsWithin(StartMachine, max_steps))
    => /\ steps = max_steps
       /\ running
       /\ ~Crashed(RunOut)

\* run(2) on the demo program, which needs 72 steps
C9_Witness ==
    /\ pc = "summary"
    /\ Holds(demo_program) /\ base.ip = 0
    /\ max_steps = 2 /\ steps = 2
    /\ running

(* C10 as the spec states it, in the direction that fails: whenever a      *)
(* run() has stopped (by HALT, unknown opcode, fault or an exhausted step  *)
(* budget) running is false.                                               *)
C10_FalseWhenStopped ==
    (start_time = "time" /\ pc \in {"summary", "idle"}) => ~running

(* C10, amended: running is false on a VM that was never run; while a run  *)
(* executes and when its loop has ended, running is false exactly when     *)
(* one of the steps executed in that run was a HALT or an unknown opcode,  *)
(* or a fault was caught; so it is still true after a run that stopped by  *)
(* step-budget exhaustion.                                                 *)
C10_RunningFlag ==
    /\ (start_time = "None" => ~running)
    /\ (pc = "except" => running)
    /\ (pc \in {"loop", "summary"}
        => (running <=> ~(HaltsWithin(StartMachine, steps) \/ Crashed(RunOut))))

\* a run stopped by its budget with running still true, and is about to return
C10_Witness ==
    /\ pc = "summary"
    /\ running
    /\ steps = max_steps /\ max_steps = 1
    /\ ~StopsWithin(StartMachine, 1)

(* C11: a fault raised by step() inside run() (an opcode or operand fetch  *)
(* out of range) is caught by run(): the loop is left for the handler,     *)
(* which prints the crash diagnostic and sets running to false; the        *)
(* summary follows and run() returns with no exception in flight.          *)
C11_FaultCaught ==
    [][ /\ (AboutToStep /\ steps < StepCap /\ FaultsNow)
           => /\ pc' = "except" /\ exc' # "none"
              /\ steps' = steps /\ out' = out
        /\ (pc = "except")
           => /\ exc \in {"IndexError", "struct.error"}
              /\ pc' = "summary" /\ exc' = "none"
              /\ running' = FALSE
              /\ Len(out') = Len(out) + 1 /\ IsCrashLine(out'[Len(out')])
        /\ (pc \in {"loop", "summary"}) => exc = "none"
        /\ (pc = "summary") => (pc' = "idle" /\ exc' = "none") ]_vars

\* run() has returned after a caught fault: crash line, then summary, nothing in flight
C11_Witness ==
    /\ pc = "idle" /\ exc = "none" /\ ~running
    /\ Len(RunOut) >= 2
    /\ IsCrashLine(RunOut[Len(RunOut) - 1])
    /\ IsSummaryLine(RunOut[Len(RunOut)])

(* C12: every run() prints exactly one summary line, as its last output,   *)
(* whatever ended the loop: no summary is printed while the run is in      *)
(* progress, and the line printed on return reports run()'s step count     *)
(* and the operation count.                                                *)
C12_OneSummary ==
    [][ /\ (pc # "idle") => Summaries(RunOut) = {}
        /\ (pc \in {"loop", "except"}) => pc' \in {"loop", "except", "summary"}
        /\ (pc = "summary")
           => /\ pc' = "idle"
              /\ out' = Append(out, <<"Stopped after ">> \o StrInt(steps)
                                       \o <<" steps, opcount=">> \o StrInt(opcount)
                                       \o <<", elapsed=", "<elapsed>", "s">>) ]_vars

\* a run ended by a fault after the opcode fetch: 0 steps, opcount 1, one summary, last
C12_Witness ==
    /\ pc = "idle"
    /\ Len(RunOut) = 2
    /\ IsCrashLine(RunOut[1])
    /\ RunOut[2] = <<"Stopped after ", "0", " steps, opcount=", "1", ", elapsed=", "<elapsed>", "s">>

\* calls of step() made so far by the run in progress: the completed ones, and the one that raised
StepCalls == steps + (IF pc = "except" \/ Crashed(RunOut) THEN 1 ELSE 0)

(* C13: run(max_steps) calls step() at most max_steps times and            *)
(* terminates, whatever the memory image, registers and ip are, programs   *)
(* that loop forever included (budgets up to StepCap are followed to the   *)
(* end).                                                                   *)
C13_RunTerminates ==
    /\ [](pc # "idle" => StepCalls <= max_steps)
    /\ (pc # "idle" /\ max_steps <= StepCap) ~> (pc = "idle")

\* run(2) of JMP-to-self has returned after exactly two steps, still at the JMP
C13_Witness ==
    /\ pc = "idle" /\ start_time = "time"
    /\ Holds(LoopProgram) /\ base.ip = 0 /\ ip = 0
    /\ max_steps = 2 /\ steps = 2 /\ opcount = base.opcount + 2
    /\ Len(RunOut) = 1 /\ IsSummaryLine(RunOut[1])

\* address k is one of memory's addresses 0 .. N-1
InRange(k) == k \in 0..(Len(mem) - 1)

(* C14 as the spec states it: load(bytes, address) raises whenever         *)
(* address + length exceeds the memory size, and no operation changes the  *)
(* length of memory.                                                       *)
C14_LoadFaultsFixedLength ==
    [][ /\ Len(mem') = Len(mem)
        /\ \A p \in LoadInputs :
              (Load(p[1], p[2]) /\ p[2] + Len(p[1]) > Len(mem)) => exc' # "none" ]_vars

(* C15: for 0 <= address and address + length <= N, load(bytes, address)   *)
(* puts bytes[i] at address + i, leaves every other byte and the length of *)
(* memory as they were, sets ip to address and raises nothing.             *)
C15_LoadInRange ==
    [][ \A p \in LoadInputs :
           (Load(p[1], p[2]) /\ 0 <= p[2] /\ p[2] + Len(p[1]) <= Len(mem))
           => /\ Len(mem') = Len(mem)
              /\ \A k \in 0..(Len(mem) - 1) :
                    mem'[k + 1] = IF k \in p[2]..(p[2] + Len(p[1]) - 1)
                                  THEN p[1][k - p[2] + 1]
                                  ELSE mem[k + 1]
              /\ ip' = p[2]
              /\ exc' = "none" ]_vars

\* ArithProgram was loaded over the demo program after the demo had run: the demo's
\* last five bytes, beyond ArithProgram's 36, are still there, and ip is back at 0
C15_Witness ==
    /\ pc = "idle" /\ ip = 0 /\ calls = 3 /\ opcount > 0
    /\ Holds(ArithProgram)
    /\ SubSeq(mem, Len(ArithProgram) + 1, Len(demo_program))
         = SubSeq(demo_program, Len(ArithProgram) + 1, Len(demo_program))
    /\ Len(demo_program) > Len(ArithProgram)

(* C16 as the spec states it: the 1-byte fetch at the start of step()      *)
(* returns memory[IP] and advances IP by 1 when IP is in [0, N); when IP   *)
(* is outside [0, N) it raises and leaves IP unchanged.                    *)
C16_FetchU8 ==
    [][ (Step \/ RunStep)
        => IF InRange(ip)
           THEN /\ fetch_u8(Entered).v = mem[ip + 1]
                /\ fetch_u8(Entered).m.ip = ip + 1
                /\ opcount' = opcount + 1
           ELSE /\ exc' # "none"
                /\ ip' = ip
                /\ opcount' = opcount ]_vars

(* C17 as the spec states it, for the 4-byte fetch of LOAD_REG_IMM (its    *)
(* opcode and register byte were read, IP is at the immediate): if the     *)
(* four bytes IP..IP+3 are all in [0, N) the big-endian value is returned  *)
(* and IP advances by 4; otherwise the fetch raises and leaves IP where it *)
(* was.                                                                    *)
C17_FetchU32 ==
    [][ ((Step \/ RunStep) /\ CanRead(0) /\ ByteAt(0) = OP_LOAD_REG_IMM /\ CanRead(1))
        => IF \A k \in 2..5 : InRange(ip + k)
           THEN /\ exc' = "none"
                /\ ip' = ip + 6
                /\ regs'[Reg(ByteAt(1))] = Unpack32(ByteAt(2), ByteAt(3), ByteAt(4), ByteAt(5))
           ELSE /\ exc' # "none"
                /\ ip' = ip + 2 ]_vars

(* C18: in every state reachable by load, step and run on the byte images  *)
(* given to load, each of the 8 registers holds a value in [0, 2^32).      *)
C18_RegistersAreU32 == \A i \in 0..(NUM_REGS - 1) : IsU32(regs[i])

\* ArithProgram after its SUB at 30: r7 = 0x80000000 doubled to 0, then 0 - 1 = 0xFFFFFFFF
C18_Witness ==
    /\ Holds(ArithProgram)
    /\ ip = 33
    /\ regs[7] = Val(65535, 65535) /\ regs[1] = Val(65535, 65534) /\ regs[2] = Val(0, 1)

(* C19: a step raises exactly when one of its opcode or operand fetches    *)
(* cannot be read; the register byte b never makes it raise.  With b any   *)
(* byte, LOAD, MOV, ADD and SUB change no register but b mod 8, MOV copies *)
(* register (source byte) mod 8 into it, and PRINT prints register b mod 8.*)
C19_RegisterAliasing ==
    [][ (Step \/ RunStep)
        => /\ (exc' # "none") <=> FaultsNow
           /\ (~FaultsNow /\ ByteAt(0) \in {OP_LOAD_REG_IMM, OP_MOV_REG_REG,
                                            OP_ADD_REG_REG, OP_SUB_REG_REG})
              => \A i \in 0..7 : (i # ByteAt(1) % 8) => regs'[i] = regs[i]
           /\ (~FaultsNow /\ ByteAt(0) = OP_MOV_REG_REG)
              => regs'[ByteAt(1) % 8] = regs[ByteAt(2) % 8]
           /\ (~FaultsNow /\ ByteAt(0) = OP_PRINT_REG)
              => regs' = regs /\ out' = Append(out, StrVal(regs[ByteAt(1) % 8])) ]_vars

\* ArithProgram after ADD 9, 1 at 18: encoding 9 is r1, doubled from 0xFFFFFFFF to 0xFFFFFFFE;
\* r7, the register a clamped encoding would name, is still 0
C19_Witness ==
    /\ Holds(ArithProgram)
    /\ ip = 21 /\ exc = "none"
    /\ regs[1] = Val(65535, 65534) /\ regs[7] = Zero

\* opcodes counted since the run in progress began
RunOps == opcount - base.opcount

(* C20 as the spec states it: run() starts with running true, a step count *)
(* of 0 and an operation count of 0, and the operation count its summary   *)
(* reports is the number of opcodes that run executed.                     *)
C20_FreshExecutionState ==
    [][ /\ (pc = "idle" /\ pc' = "loop")
           => (running' /\ steps' = 0 /\ opcount' = 0)
        /\ (pc = "summary" /\ pc' = "idle")
           => out'[Len(out')] = SummaryLine(steps, RunOps) ]_vars

\* the lines of a sequence that are not run() summaries, in order
RECURSIVE NoSummaries(_)
NoSummaries(lines) ==
    IF lines = <<>> THEN <<>>
    ELSE (IF IsSummaryLine(Head(lines)) THEN <<>> ELSE <<Head(lines)>>) \o NoSummaries(Tail(lines))

\* the machine as it was when the first of the resumed runs began
FirstMachine ==
    [mem |-> mem, regs |-> base.from.regs, ip |-> base.from.ip, running |-> FALSE,
     opcount |-> base.from.opcount, out |-> <<>>, exc |-> "none"]

(* C21: when run(b) returns, having been called right after runs that      *)
(* stopped because their budgets (a in total) ran out, memory, registers,  *)
(* ip and the lines printed other than summaries (also running and the     *)
(* operation count) are those a single run(a + b) from the state before    *)
(* the first run leaves.                                                   *)
C21_ResumeEqualsSingleRun ==
    (pc = "idle" /\ base.resumed /\ calls = base.calls)
    => LET one == run(FirstMachine, base.spent + max_steps)
       IN /\ one.mem = mem /\ one.regs = regs /\ one.ip = ip
          /\ one.running = running /\ one.opcount = opcount
          /\ NoSummaries(one.out) = NoSummaries(SubSeq(out, base.from.out + 1, Len(out)))

\* the demo program after run(2); run(2): two loads, then PRINT r0 and LOAD r2 in the second run
C21_Witness ==
    /\ pc = "idle" /\ base.resumed /\ calls = base.calls
    /\ base.spent = 2 /\ max_steps = 2 /\ steps = 2
    /\ Holds(demo_program) /\ base.from.ip = 0 /\ base.ip = 12 /\ ip = 20
    /\ NoSummaries(SubSeq(out, base.from.out + 1, Len(out))) = <<DemoLines[1]>>
    /\ regs[2] = Val(0, 1)

\* the number of bytes of the instruction with opcode op, opcode byte included
Width(op) ==
    CASE op \in {OP_LOAD_REG_IMM, OP_JZ} -> 6
      [] op = OP_JMP -> 5
      [] op \in {OP_MOV_REG_REG, OP_ADD_REG_REG, OP_SUB_REG_REG} -> 3
      [] op = OP_PRINT_REG -> 2
      [] OTHER -> 1

\* execution is about to run off the end of memory: ip has reached N, or the
\* instruction at ip needs bytes at N or beyond
RunsOff ==
    IF ip >= Len(mem) THEN TRUE
    ELSE ip >= 0 /\ ip + Width(ByteAt(0)) > Len(mem)

(* C22: when ip has reached N by sequential advance, or the instruction at *)
(* ip has an operand at N or beyond, the step raises: nothing is read from *)
(* address 0 (ip stays between where it was and N, no register changes,    *)
(* nothing is printed), and inside run() the handler follows, printing the *)
(* crash line and setting running false.                                   *)
C22_NoWrapAtEnd ==
    [][ /\ ((Step \/ RunStep) /\ RunsOff)
           => /\ exc' # "none"
              /\ ip <= ip' /\ (ip' <= Len(mem) \/ ip' = ip)
              /\ regs' = regs /\ out' = out
        /\ (RunStep /\ RunsOff) => pc' = "except"
        /\ (pc = "except")
           => (pc' = "summary" /\ ~running' /\ IsCrashLine(out'[Len(out')])) ]_vars

\* a second run of the demo program, after its HALT: NOPs up to the end of memory, then the crash
C22_Witness ==
    /\ pc = "idle" /\ Holds(demo_program)
    /\ base.ip = Len(demo_program) /\ steps = Len(mem) - Len(demo_program)
    /\ ip = Len(mem) /\ ~running
    /\ Len(RunOut) = 2 /\ IsCrashLine(RunOut[1])

IsUnknownLine(line) == line[1] = "Unknown opcode 0x"

\* no call was made on the VM since the last run() began
InRun == start_time = "time" /\ calls = base.calls

(* C23: in run(), a step that fetches an opcode outside the table raises   *)
(* nothing: it prints the unknown-opcode line (opcode, address), is        *)
(* counted in steps, sets running false and leaves registers and memory    *)
(* alone; a run that printed an unknown-opcode line prints no crash line.  *)
C23_UnknownIsNotCrash ==
    [][ /\ (RunStep /\ CanRead(0) /\ ByteAt(0) \notin KnownOpcodes)
           => /\ pc' = "loop" /\ exc' = "none"
              /\ steps' = steps + 1
              /\ ~running'
              /\ regs' = regs /\ mem' = mem
              /\ out' = Append(out, <<"Unknown opcode 0x">> \o Hex02(ByteAt(0))
                                       \o <<" at ">> \o StrInt(ip))
        /\ (InRun' /\ \E i \in 1..Len(RunOut') : IsUnknownLine(RunOut'[i]))
           => (pc' # "except" /\ ~Crashed(RunOut')) ]_vars

\* run() from address 5, where byte 0xFF is: one step, the unknown-opcode line, the summary
C23_Witness ==
    /\ pc = "idle" /\ InRun /\ ~running
    /\ base.ip = 5 /\ ip = 6 /\ steps = 1
    /\ Len(RunOut) = 2
    /\ RunOut[1] = <<"Unknown opcode 0x", "F", "F", " at ", "5">>
    /\ IsSummaryLine(RunOut[2])

\* "IP=<at> r0=<r[0]> r1=<r[1]> ... r7=<r[7]>", piece by piece
DebugText(at, r) ==
    <<"IP=">> \o StrInt(at)
    \o <<" ", "r", "0", "=">> \o StrVal(r[0]) \o <<" ", "r", "1", "=">> \o StrVal(r[1])
    \o <<" ", "r", "2", "=">> \o StrVal(r[2]) \o <<" ", "r", "3", "=">> \o StrVal(r[3])
    \o <<" ", "r", "4", "=">> \o StrVal(r[4]) \o <<" ", "r", "5", "=">> \o StrVal(r[5])
    \o <<" ", "r", "6", "=">> \o StrVal(r[6]) \o <<" ", "r", "7", "=">> \o StrVal(r[7])

(* C24: debug_state() prints one line, made of ip and the registers r0..r7 *)
(* in order and of nothing else, and changes no field of the VM; a step on *)
(* the DEBUG_STATE opcode prints that same line for ip as it is after the  *)
(* opcode byte was fetched, and changes nothing but ip and opcount.        *)
C24_DebugLine ==
    [][ /\ DebugState
           => /\ out' = Append(out, DebugText(ip, regs))
              /\ mem' = mem /\ regs' = regs /\ ip' = ip
              /\ running' = running /\ opcount' = opcount /\ exc' = "none"
        /\ ((Step \/ RunStep) /\ CanRead(0) /\ ByteAt(0) = OP_DEBUG_STATE)
           => /\ out' = Append(out, DebugText(ip + 1, regs))
              /\ out' = debug_state([Entered EXCEPT !.ip = ip + 1]).out
              /\ mem' = mem /\ regs' = regs /\ ip' = ip + 1
              /\ running' = running /\ exc' = "none" ]_vars

\* JumpProgram after its DEBUG_STATE at 25: the line shows IP=26 and r0 = 0x00010000
C24_Witness ==
    /\ Holds(JumpProgram) /\ ip = 26 /\ regs[0] = Val(1, 0)
    /\ out # <<>>
    /\ SubSeq(out[Len(out)], 1, 14)
         = <<"IP=", "2", "6", " ", "r", "0", "=", "6", "5", "5", "3", "6", " ", "r">>
    /\ out[Len(out)] = DebugText(26, regs)

\* every part is an int in range(256), a bytes object or a ("u32", v) with v in [0, 2^32)
WellFormed(parts) ==
    \A i \in 1..Len(parts) :
        \/ parts[i].kind = "int" /\ parts[i].n \in 0..255
        \/ parts[i].kind = "bytes"
        \/ parts[i].kind = "u32" /\ IsU32(parts[i].v)

\* the bytes the parts stand for, in order: one byte, the bytes themselves, four bytes high first
RECURSIVE Flat(_)
Flat(parts) ==
    IF parts = <<>> THEN <<>>
    ELSE LET p == Head(parts)
         IN (CASE p.kind = "int" -> <<p.n>>
               [] p.kind = "bytes" -> p.b
               [] OTHER -> <<p.v.hi \div 256, p.v.hi % 256, p.v.lo \div 256, p.v.lo % 256>>)
            \o Flat(Tail(parts))

\* the program LOAD_REG_IMM 13, v as assemble_bytes returns it
AsmLoadImm(v) == assemble_bytes(<<IntPart(OP_LOAD_REG_IMM), IntPart(13), U32Part(v)>>).out

(* C25: assemble_bytes of well-formed parts raises nothing and returns the *)
(* parts' bytes in order (an int as one byte, bytes as themselves, a       *)
(* ("u32", v) as four big-endian bytes); and once LOAD_REG_IMM r, ("u32",  *)
(* v) so assembled is loaded, the step's 32-bit fetch gives back v.        *)
C25_AssembleRoundTrip ==
    [][ /\ \A parts \in AsmInputs :
              (LoadAssembled(parts, 0) /\ WellFormed(parts))
              => /\ exc' = "none" /\ ip' = 0
                 /\ assemble_bytes(parts).out = Flat(parts)
                 /\ SubSeq(mem', 1, Len(Flat(parts))) = Flat(parts)
        /\ \A v \in AsmValues :
              ((Step \/ RunStep) /\ ip = 0 /\ Holds(AsmLoadImm(v)))
              => (exc' = "none" /\ regs'[5] = v /\ ip' = 6) ]_vars

\* LOAD_REG_IMM 13, ("u32", 0x80000001) was assembled, loaded and executed: r5 holds the value
C25_Witness ==
    /\ Holds(<<OP_LOAD_REG_IMM, 13, 128, 0, 0, 1>>)
    /\ ip = 6 /\ exc = "none"
    /\ regs[5] = Val(32768, 1)

(* C26: a step whose opcode byte can be fetched adds exactly 1 to the       *)
(* operation count, whatever the byte is and whether or not an operand     *)
(* fetch raises afterwards; a step whose opcode fetch raises leaves the    *)
(* operation count and ip as they were.                                    *)
C26_OpcountPerStep ==
    [][ (Step \/ RunStep)
        => IF CanRead(0)
           THEN opcount' = opcount + 1
           ELSE (exc' = "IndexError" /\ opcount' = opcount /\ ip' = ip) ]_vars

\* a direct step on LOAD_REG_IMM in the last two bytes: the immediate cannot be fetched,
\* the opcode is counted all the same
C26_Witness ==
    /\ pc = "idle" /\ exc = "struct.error"
    /\ ip = Len(mem) /\ mem[Len(mem) - 1] = OP_LOAD_REG_IMM
    /\ opcount = 1 /\ calls = 2

\* the step from this state is a jump that is taken: JMP, or JZ on a register that is 0
JumpTaken ==
    \/ ByteAt(0) = OP_JMP
    \/ ByteAt(0) = OP_JZ /\ CanRead(1) /\ regs[ByteAt(1) % 8] = Zero

(* C27: a step that raises nothing and takes no jump advances ip by the    *)
(* fixed width of its opcode, whatever the operand bytes are: 1 for NOP,   *)
(* HALT, DEBUG_STATE and unknown opcodes, 2 for PRINT_REG, 3 for MOV, ADD  *)
(* and SUB, 6 for LOAD_REG_IMM and for a JZ that is not taken.             *)
C27_FixedWidth ==
    [][ ((Step \/ RunStep) /\ exc' = "none" /\ ~JumpTaken)
        => ip' = ip + (CASE ByteAt(0) \in {OP_LOAD_REG_IMM, OP_JZ} -> 6
                         [] ByteAt(0) \in {OP_MOV_REG_REG, OP_ADD_REG_REG, OP_SUB_REG_REG} -> 3
                         [] ByteAt(0) = OP_PRINT_REG -> 2
                         [] OTHER -> 1) ]_vars

\* JumpProgram after its first JZ, not taken because r0 = 0x00010000: ip went from 6 to 12
C27_Witness ==
    /\ Holds(JumpProgram)
    /\ ip = 12 /\ exc = "none"
    /\ regs[0] = Val(1, 0)
    /\ mem[7] = OP_JZ

(* C28: a step of LOAD_REG_IMM, MOV_REG_REG, ADD_REG_REG or SUB_REG_REG    *)
(* that raises nothing changes no register but the destination (first      *)
(* operand byte mod 8), and neither memory nor running; MOV leaves in it    *)
(* the value of the source register.  A step of NOP, JMP, JZ, PRINT_REG or *)
(* DEBUG_STATE changes no register.                                        *)
C28_FrameOfInstructions ==
    [][ ((Step \/ RunStep) /\ CanRead(0))
        => /\ (exc' = "none" /\ ByteAt(0) \in {OP_LOAD_REG_IMM, OP_MOV_REG_REG,
                                               OP_ADD_REG_REG, OP_SUB_REG_REG})
              => /\ regs' = [regs EXCEPT ![ByteAt(1) % 8] = regs'[ByteAt(1) % 8]]
                 /\ mem' = mem
                 /\ running' = running
           /\ (exc' = "none" /\ ByteAt(0) = OP_MOV_REG_REG)
              => regs'[ByteAt(1) % 8] = regs[ByteAt(2) % 8]
           /\ (ByteAt(0) \in {OP_NOP, OP_JMP, OP_JZ, OP_PRINT_REG, OP_DEBUG_STATE})
              => regs' = regs ]_vars

\* the demo program after its first MOV r3, r0: r3 took r0's value 1, r0 and r1 kept theirs
C28_Witness ==
    /\ Holds(demo_program)
    /\ ip = 26
    /\ regs[3] = Val(0, 1) /\ regs[0] = Val(0, 1) /\ regs[1] = Val(0, 10)

\* the last call was a run() that a HALT stopped: it has returned with running false,
\* having printed neither a crash line nor an unknown-opcode line
HaltStopped ==
    /\ pc = "idle" /\ InRun /\ ~running
    /\ \A i \in 1..Len(RunOut) : ~IsCrashLine(RunOut[i]) /\ ~IsUnknownLine(RunOut[i])

(* C29: a run() called after a run that HALT stopped sets running to true  *)
(* again and starts with ip where that run left it, the byte after the     *)
(* HALT, with registers and memory as they were; its first step fetches    *)
(* the opcode there.                                                       *)
C29_HaltNotSticky ==
    [][ /\ (HaltStopped /\ pc' = "loop")
           => /\ ValidIndex(ip - 1, Len(mem)) /\ MemAt(Machine, ip - 1) = OP_HALT
              /\ running' /\ steps' = 0
              /\ ip' = ip /\ regs' = regs /\ mem' = mem
        /\ (pc = "loop" /\ steps = 0)
           => (running /\ ip = base.ip /\ regs = base.regs)
        /\ (RunStep /\ steps = 0 /\ CanRead(0))
           => opcount' = opcount + 1 ]_vars

\* the demo program, run again after its HALT at 40: the NOP at 41 was executed, the
\* registers are those the first run left
C29_Witness ==
    /\ pc = "loop" /\ running /\ Holds(demo_program)
    /\ base.ip = Len(demo_program) /\ mem[base.ip] = OP_HALT
    /\ steps = 1 /\ ip = base.ip + 1
    /\ regs[0] = Val(0, 10) /\ regs[3] = Zero

\* bytes a step has fetched when its operand fetch raises: the opcode byte, and the first
\* operand byte if that one could be read (a 4-byte fetch that raises fetches nothing)
FetchedBeforeFault == IF ByteAt(0) # OP_JMP /\ CanRead(1) THEN 2 ELSE 1

(* C30: when a step's opcode is fetched and an operand fetch then raises,  *)
(* no register changes and nothing is printed, ip stays past the bytes     *)
(* fetched so far and the operation count stays incremented; in run() the  *)
(* step is not counted in steps, and the handler comes next.               *)
C30_OperandFault ==
    [][ /\ ((Step \/ RunStep) /\ CanRead(0) /\ OperandFault)
           => /\ exc' # "none"
              /\ regs' = regs /\ mem' = mem /\ out' = out
              /\ ip' = ip + FetchedBeforeFault
              /\ opcount' = opcount + 1
        /\ (RunStep /\ CanRead(0) /\ OperandFault)
           => (steps' = steps /\ pc' = "except")
        /\ (pc = "except") => steps' = steps ]_vars

\* run() on MOV_REG_REG in the last two bytes: the source byte cannot be fetched; the run
\* has returned with 0 steps, opcount 1 more and ip at the end of memory
C30_Witness ==
    /\ pc = "idle" /\ InRun /\ ~running
    /\ mem[Len(mem) - 1] = OP_MOV_REG_REG /\ base.ip = Len(mem) - 2
    /\ ip = Len(mem) /\ steps = 0 /\ opcount = base.opcount + 1
    /\ regs = base.regs
    /\ Crashed(RunOut)

\* a run() that began with an operation count of 0, and no call since it began
FreshRun == InRun /\ base.opcount = 0

(* C31: during and after a run() that began on a VM whose operation count  *)
(* was 0, steps <= opcount <= steps + 1.  opcount = steps while the loop   *)
(* runs and when it ends without a crash; a step that raises at its opcode *)
(* fetch leaves opcount = steps, one that raises at an operand leaves      *)
(* opcount = steps + 1, and both stay so up to and after the summary.      *)
C31_StepsAndOpcount ==
    [][ FreshRun
        => /\ steps <= opcount /\ opcount <= steps + 1
           /\ (pc = "loop") => opcount = steps
           /\ (pc # "except" /\ ~Crashed(RunOut)) => opcount = steps
           /\ (opcount = steps + 1) => (pc = "except" \/ Crashed(RunOut))
           /\ (RunStep /\ ~CanRead(0)) => (pc' = "except" /\ opcount' = steps')
           /\ (RunStep /\ CanRead(0) /\ OperandFault)
              => (pc' = "except" /\ opcount' = steps' + 1)
           /\ (pc \in {"except", "summary"}) => (opcount' = opcount /\ steps' = steps) ]_vars

\* LOAD_REG_IMM in the last six bytes ran, then the opcode fetch at N raised: at the
\* summary steps = opcount = 1
C31_Witness ==
    /\ pc = "summary" /\ FreshRun
    /\ Crashed(RunOut)
    /\ ip = Len(mem) /\ steps = 1 /\ opcount = 1
    /\ regs[1] = Val(0, 7)

(* C32: no step(), run() or debug_state() changes memory, contents or      *)
(* length: every transition that is a direct step or debug_state call, or  *)
(* that begins, continues or ends a run, leaves mem as it was, so memory   *)
(* is always what the last load left.                                      *)
C32_MemoryReadOnly ==
    [][ (Step \/ DebugState \/ pc # "idle" \/ pc' # "idle") => mem' = mem ]_vars

\* ArithProgram has run to its HALT: ten steps, and memory still holds the program
C32_Witness ==
    /\ pc = "idle" /\ InRun /\ ~running
    /\ base.ip = 0 /\ steps = 10 /\ ip = Len(ArithProgram)
    /\ Holds(ArithProgram) /\ Len(mem) = MemSize

\* 0 <= IP <= N
IpInBounds == 0 <= ip /\ ip <= Len(mem)

\* this transition is a load whose address is negative or whose bytes end beyond N
BadLoad ==
    \E p \in LoadInputs :
        Load(p[1], p[2]) /\ ~(0 <= p[2] /\ p[2] + Len(p[1]) <= Len(mem))

\* this transition is a step that moved ip forward by the bytes it fetched, not by a jump
SequentialAdvance ==
    /\ Step \/ RunStep
    /\ CanRead(0)
    /\ ip' - ip \in 1..6
    /\ ~(JumpTaken /\ exc' = "none")

\* this transition is a load of no bytes at address N
LoadAtEnd == \E p \in LoadInputs : Load(p[1], p[2]) /\ p[2] = Len(mem) /\ p[1] = <<>>

(* C33 as the spec states it: from a state with 0 <= IP <= N, any          *)
(* transition other than a load outside 0 <= address, address + length <=  *)
(* N leaves 0 <= IP <= N, and IP arrives at N only by the sequential       *)
(* advance of a step.                                                      *)
C33_EndOnlyBySequentialAdvance ==
    [][ (IpInBounds /\ ~BadLoad)
        => /\ 0 <= ip' /\ ip' <= Len(mem')
           /\ (ip' = Len(mem') /\ ip' # ip) => SequentialAdvance ]_vars

(* C33, amended: from a state with 0 <= IP <= N, any transition other than *)
(* a load outside 0 <= address, address + length <= N leaves 0 <= IP <= N; *)
(* a jump that is taken leaves IP < N; IP arrives at N only by the         *)
(* sequential advance of a step or by a load of no bytes at address N.     *)
C33_IpInBounds ==
    [][ (IpInBounds /\ ~BadLoad)
        => /\ 0 <= ip' /\ ip' <= Len(mem')
           /\ ((Step \/ RunStep) /\ CanRead(0) /\ JumpTaken /\ exc' = "none")
              => ip' < Len(mem')
           /\ (ip' = Len(mem') /\ ip' # ip) => (SequentialAdvance \/ LoadAtEnd) ]_vars

\* load(b"", N) on a new VM: IP = N, and no step was ever executed
C33_Witness ==
    /\ pc = "idle" /\ start_time = "None"
    /\ calls = 1 /\ opcount = 0 /\ exc = "none"
    /\ Len(mem) = MemSize /\ ip = Len(mem)

\* this transition is a call of load(data, addr)
LoadOf(data, addr) ==
    \/ Load(data, addr)
    \/ \E parts \in AsmInputs :
          LoadAssembled(parts, addr) /\ exc' = "none" /\ data = assemble_bytes(parts).out

\* the data and addresses load() is called with
LoadCalls ==
    LoadInputs \cup {<<assemble_bytes(parts).out, 0>> : parts \in AsmInputs}

(* C34: load() leaves the registers, the operation count, the running flag *)
(* and the output as they were (and, for a load inside memory, every byte  *)
(* outside the bytes written); a run() begun afterwards starts with those  *)
(* registers and that operation count.                                     *)
C34_LoadKeepsRegisters ==
    [][ /\ \A p \in LoadCalls :
              LoadOf(p[1], p[2])
              => /\ regs' = regs /\ opcount' = opcount /\ running' = running /\ out' = out
                 /\ ip' = p[2]
                 /\ \A k \in 0..(Len(mem) - 1) :
                       (Len(mem') = Len(mem) /\ (k < p[2] \/ k >= p[2] + Len(p[1])))
                       => mem'[k + 1] = mem[k + 1]
        /\ (pc = "idle" /\ pc' = "loop")
           => (regs' = regs /\ opcount' = opcount /\ base'.regs = regs /\ base'.opcount = opcount)
      ]_vars

\* ArithProgram was loaded after the demo program had run to its HALT: r0 and r1 still
\* hold 10, the operation count is still 72 and running is still false
C34_Witness ==
    /\ pc = "idle" /\ ip = 0 /\ calls = 3
    /\ Holds(ArithProgram)
    /\ regs[0] = Val(0, 10) /\ regs[1] = Val(0, 10) /\ regs[2] = Val(0, 1)
    /\ opcount = 72 /\ ~running

\* the call in progress, or the last call made, is run(0)
RunZero == InRun /\ max_steps = 0

\* what run(0) has done: nothing but set running and, on return, print the summary
RunZeroDone ==
    /\ steps = 0
    /\ regs = base.regs /\ ip = base.ip /\ opcount = base.opcount
    /\ running
    /\ exc = "none" /\ pc \in {"loop", "summary", "idle"}
    /\ RunOut = (IF pc = "idle" THEN <<SummaryLine(0, base.opcount)>> ELSE <<>>)

(* C35: run(0) executes no step: memory, registers, ip and the operation   *)
(* count stay as they were, no exception is raised and no crash line is    *)
(* printed wherever ip points, the only line printed is the summary with   *)
(* 0 steps, and running is true from the entry of run(0) on.               *)
C35_RunZero ==
    [][ /\ RunZero => RunZeroDone
        /\ RunZero' => RunZeroDone'
        /\ ((RunZero /\ pc # "idle") \/ (RunZero' /\ pc' # "idle")) => mem' = mem
        /\ (RunZero /\ pc # "idle") => ~RunStep
      ]_vars

\* run(0) returned on a VM whose earlier run had crashed at ip = N after one
\* instruction: ip is still N, the operation count still 1, and running is true again
C35_Witness ==
    /\ pc = "idle" /\ RunZero /\ calls = 3
    /\ ip = Len(mem) /\ ~CanRead(0)
    /\ opcount = 1 /\ regs[1] = Val(0, 7)
    /\ running
    /\ Len(out) = 3
    /\ IsCrashLine(out[1])
    /\ out[3] = SummaryLine(0, 1)

\* a second VM that agrees with this one, as it was when the run began, on memory,
\* registers, ip and operation count, and on nothing else: it has printed nothing,
\* has never run, and its running flag is r
OtherVM(r) ==
    [mem |-> mem, regs |-> base.regs, ip |-> base.ip, running |-> r,
     opcount |-> base.opcount, out |-> <<>>, exc |-> "none"]

(* C36: when run(max_steps) has returned, the lines it printed (elapsed     *)
(* time apart), the step count and operation count of its summary, and the *)
(* memory, registers, ip, running flag and operation count it left are     *)
(* those that run(max_steps) gives on any second VM that had the same      *)
(* memory, registers, ip and operation count, whatever that VM's running   *)
(* flag and earlier output.                                                *)
C36_Deterministic ==
    (pc = "idle" /\ InRun)
    => \A r \in BOOLEAN :
          LET other == run(OtherVM(r), max_steps)
          IN /\ other.out = RunOut
             /\ other.mem = mem /\ other.regs = regs /\ other.ip = ip
             /\ other.running = running /\ other.opcount = opcount
             /\ other.exc = exc

\* run(2) returned on a VM whose earlier run had ended and had printed lines: the
\* second VM starts with running true or false and no output, and ends the same
C36_Witness ==
    /\ pc = "idle" /\ InRun /\ calls = 3
    /\ ~base.resumed /\ base.out > 1 /\ base.opcount > 0
    /\ max_steps = 2 /\ steps = 2 /\ opcount = base.opcount + 2
    /\ RunOut = <<SummaryLine(2, opcount)>>

\* this transition is a step() on opcode op whose fetches all succeed
Completes(op) == (Step \/ RunStep) /\ CanRead(0) /\ ByteAt(0) = op /\ ~OperandFault

(* C37: a step that fetches the DEBUG_STATE opcode at address A prints a    *)
(* line that shows IP = A + 1; the line of a PRINT_REG step and the line   *)
(* of a DEBUG_STATE step are put after every line printed before, and no   *)
(* transition removes or reorders a line already printed, so the lines     *)
(* stand in the output in the order the instructions were executed.        *)
C37_DebugIpAndOrder ==
    [][ /\ Len(out') >= Len(out) /\ SubSeq(out', 1, Len(out)) = out
        /\ Completes(OP_DEBUG_STATE)
           => /\ Len(out') = Len(out) + 1
              /\ SubSeq(out'[Len(out')], 1, 1 + Len(StrInt(ip + 1)) + 1)
                   = <<"IP=">> \o StrInt(ip + 1) \o <<" ">>
              /\ out'[Len(out')] = DebugText(ip + 1, regs)
        /\ Completes(OP_PRINT_REG)
           => out' = out \o <<StrVal(regs[ByteAt(1) % NUM_REGS])>>
      ]_vars

\* TraceProgram ran to its HALT: 5, the state at 9, 6, the state at 18, in that order
C37_Witness ==
    /\ pc = "summary" /\ InRun /\ Holds(TraceProgram) /\ base.ip = 0
    /\ ~running /\ ip = 19
    /\ Len(RunOut) = 4
    /\ RunOut[1] = <<"5">>
    /\ RunOut[2] = DebugText(9, [regs EXCEPT ![0] = Val(0, 5)])
    /\ RunOut[3] = <<"6">>
    /\ RunOut[4] = DebugText(18, regs)

\* the run in progress, or just returned, began when the last lines printed were the
\* crash line and the summary of an earlier run, with ip outside memory
RunAfterFault ==
    /\ InRun
    /\ base.out >= 2
    /\ IsCrashLine(out[base.out - 1]) /\ IsSummaryLine(out[base.out])
    /\ ~ValidIndex(base.ip, Len(mem))

\* the run has faulted at its first opcode fetch, or is about to
FaultsAgain ==
    /\ steps = 0
    /\ regs = base.regs /\ ip = base.ip /\ opcount = base.opcount
    /\ CASE pc = "loop" -> running /\ exc = "none" /\ RunOut = <<>>
         [] pc = "except" -> exc = "IndexError" /\ RunOut = <<>>
         [] pc = "summary" -> ~running /\ exc = "none" /\ RunOut = <<CrashLine("IndexError")>>
         [] OTHER -> /\ ~running /\ exc = "none"
                     /\ RunOut = <<CrashLine("IndexError"), SummaryLine(0, base.opcount)>>

(* C38 as the spec states it: after a run() that crashed with ip out of     *)
(* range, every further run(), whatever its budget, faults again with 0    *)
(* steps and leaves memory, registers, ip and the operation count          *)
(* unchanged.                                                              *)
C38_EveryFurtherRunFaults ==
    [][ RunAfterFault' => (FaultsAgain' /\ mem' = mem) ]_vars

(* C38, amended: after a run() that crashed with ip out of range, every     *)
(* further run(max_steps) with max_steps >= 1 faults again at its first    *)
(* opcode fetch: 0 steps, one crash line and the summary, running false,   *)
(* and memory, registers, ip and the operation count unchanged; run(0)     *)
(* does not fault and changes none of them either.                         *)
C38_FurtherRunFaults ==
    [][ RunAfterFault'
        => /\ mem' = mem
           /\ steps' = 0 /\ regs' = base'.regs /\ ip' = base'.ip /\ opcount' = base'.opcount
           /\ IF max_steps' >= 1 THEN FaultsAgain' ELSE RunZeroDone'
      ]_vars

\* the second run() of a VM whose first run crashed at ip = N after one instruction
\* has returned: a second crash line, 0 steps, and ip, r1 and the operation count as before
C38_Witness ==
    /\ pc = "idle" /\ RunAfterFault /\ calls = 3
    /\ max_steps = DefaultMaxSteps
    /\ ip = Len(mem) /\ opcount = 1 /\ regs[1] = Val(0, 7) /\ ~running
    /\ Len(out) = 4
    /\ IsCrashLine(out[1]) /\ out[2] = SummaryLine(1, 1)
    /\ IsCrashLine(out[3]) /\ out[4] = SummaryLine(0, 1)

====
